---------------------------- MODULE Spec2Model ----------------------------
(***************************************************************************)
(* A model of src/src/inject.py: the CDP protocol client (execute_js), the *)
(* polling primitive (wait_for), the injection sequence                    *)
(* (inject_to_viewer), the reconciliation loop (monitor_debuggers) and the *)
(* console monitor (DebuggerMonitor).                                      *)
(*                                                                         *)
(* Python and JSON values are modelled as trees: a function from paths     *)
(* (sequences of keys) to tags, the empty path carrying the tag of the     *)
(* root.  A dict has tag "dict" and one subtree per key; a list has tag    *)
(* "list" and one subtree per index.                                       *)
(***************************************************************************)
EXTENDS Integers, Sequences, FiniteSets, TLC

VARIABLES
    running,            \* is_process_running(RIDI), the host process is alive
    silent,             \* the sessions that accept a connection and never send a response
    e_pc,               \* execute_js: position in the call, for each caller
    e_wire,             \* execute_js: what the transport does during the call
    e_ret,              \* execute_js: outcome of the call (returned value or raised exception)
    e_calls,            \* execute_js: number of calls each caller has begun
    connections,        \* execute_js: the open websocket connections
    w_pc,               \* wait_for: position in the call
    w_budget,           \* wait_for: max_attempts
    w_calls,            \* wait_for: the outcomes of the calls of condition_func so far
    r_pc,               \* monitor_debuggers: position
    known_ids,          \* monitor_debuggers: known_ids
    current_ids,        \* monitor_debuggers: current_ids
    new_debuggers,      \* monitor_debuggers: the part of new_debuggers not yet visited
    debugger,           \* monitor_debuggers: the loop variable of "for debugger in new_debuggers"
    r_ticks,            \* monitor_debuggers: number of completed loop iterations
    JSZIP_JS,           \* module constant: text of scripts/jszip.js, or False
    INJECT_JS,          \* module constant: text of scripts/inject.js, or False
    i_evals,            \* inject_to_viewer: the scripts the current (or last) call has sent for evaluation
    i_ret,              \* inject_to_viewer: outcome of the current (or last) call
    i_ran,              \* history: the scripts of i_evals that ran to completion in the page
    inject_calls,       \* history: number of calls of inject_to_viewer, per session id
    injects_since_absent, \* history: calls of inject_to_viewer per id since a processed snapshot last omitted it
    unresponsive,       \* history: the ids whose liveness probe was falsy in this tick
    not_viewer,         \* history: the ids whose viewer check returned false in this tick
    r_snapshot,         \* history: the ids of the latest snapshot get_debuggers returned to the loop
    r_raised,           \* history: the call whose exception left monitor_debuggers, "" if none
    m_pc,               \* _monitor_loop: position
    active_debuggers,   \* DebuggerMonitor.active_debuggers, a dict in insertion order
    m_queue,            \* _monitor_loop: the items of active_debuggers not yet polled
    m_debugger,         \* _monitor_loop: the item being polled
    m_ticks,            \* _monitor_loop: number of completed loop iterations
    m_snapshot,         \* history: the directory result of the latest fetch of the monitor
    m_polled,           \* history: the sessions whose poll began in this tick
    page,               \* the page context of one session: collector flag, wrappers, buffers
    k_calls,            \* history: number of console calls and error events of the page so far
    k_polls,            \* number of calls of _poll_debugger_output on the page so far
    k_log,              \* what the monitor has logged for the page: per buffer, one batch per drain that logged
    k_owed,             \* history: the entries appended in this page context and not logged yet
    k_clean,            \* history: per buffer, no entry was appended since a drain last ran
    s_pc,               \* stop_monitoring: position in the call
    m_cancel,           \* the monitor task has a cancellation requested and not yet delivered
    s_at                \* history: where the monitor task was when cancel() was called

evalVars  == <<e_pc, e_wire, e_ret, e_calls, connections>>
waitVars  == <<w_pc, w_budget, w_calls>>
reconVars == <<r_pc, known_ids, current_ids, new_debuggers, debugger, r_ticks,
               JSZIP_JS, INJECT_JS, i_evals, i_ret, i_ran, inject_calls, injects_since_absent,
               unresponsive, not_viewer, r_snapshot, r_raised>>
monVars   == <<m_pc, active_debuggers, m_queue, m_debugger, m_ticks, m_snapshot, m_polled>>
envVars   == <<running, silent>>
consoleVars == <<page, k_calls, k_polls, k_log, k_owed, k_clean>>
stopVars  == <<s_pc, m_cancel, s_at>>
vars      == <<envVars, evalVars, waitVars, reconVars, monVars, consoleVars, stopVars>>

-----------------------------------------------------------------------------
(* Bounds of the model *)

NumSessions == 2        \* number of distinct session ids the directory may list
MaxTicks == 3           \* loop iterations explored per loop
MaxBudget == 3          \* largest max_attempts tried on wait_for alone
MaxCalls == 2           \* console calls and error events of the page
MaxPolls == 2           \* calls of _poll_debugger_output on the page
MaxEvals == 2           \* calls of execute_js made by one caller
BothTicks == 2          \* loop iterations begun by the two loops together

(* Program constants *)

MAX_WAIT == 1000

Ids == 1 .. NumSessions

-----------------------------------------------------------------------------
(* Values *)

Leaf(tag) == [p \in {<<>>} |-> tag]

None == Leaf("null")
False == Leaf("false")
True == Leaf("true")
Int0 == Leaf("0")
Int1 == Leaf("1")
StrEmpty == Leaf("''")
StrText == Leaf("'text'")
SetupComplete == Leaf("'setup-complete'")
AlreadySetup == Leaf("'already-setup'")
EmptyList == Leaf("list")
EmptyDict == Leaf("dict")
Coroutine == Leaf("coroutine")      \* an un-awaited coroutine object

\* A dict with the keys DOMAIN kids, kids[k] the value under key k.
DictOf(kids) ==
    [p \in {<<>>} \cup UNION {{<<k>> \o q : q \in DOMAIN kids[k]} : k \in DOMAIN kids}
        |-> IF p = <<>> THEN "dict" ELSE kids[Head(p)][Tail(p)]]

\* A list of one element.
ListOf1(child) ==
    [p \in {<<>>} \cup {<<"0">> \o q : q \in DOMAIN child}
        |-> IF p = <<>> THEN "list" ELSE child[Tail(p)]]

Tag(v) == v[<<>>]
IsDict(v) == Tag(v) = "dict"

\* The value under key k of dict d.
Sub(d, k) ==
    [q \in {Tail(p) : p \in {x \in DOMAIN d : x # <<>> /\ Head(x) = k}} |-> d[<<k>> \o q]]

\* d.get(k, default) for a dict d
dict_get(d, k, default) == IF <<k>> \in DOMAIN d THEN Sub(d, k) ELSE default

\* Python truthiness: bool(v)
Truthy(v) ==
    /\ Tag(v) \notin {"null", "false", "0", "''"}
    /\ ~(Tag(v) \in {"list", "dict"} /\ DOMAIN v = {<<>>})

\* The outcome of a call: a returned value or a raised exception.
Return(v) == [raised |-> "", value |-> v]
Raise(exc) == [raised |-> exc, value |-> None]
NotCalled == [raised |-> "pending", value |-> None]

-----------------------------------------------------------------------------
(* Exceptions *)

\* The classes an exception is an instance of.
Bases(exc) ==
    CASE exc = "ConnectionRefusedError" -> {"ConnectionRefusedError", "ConnectionError", "OSError", "Exception"}
      [] exc = "ConnectionResetError" -> {"ConnectionResetError", "ConnectionError", "OSError", "Exception"}
      [] exc = "TimeoutError" -> {"TimeoutError", "OSError", "Exception"}
      [] exc = "InvalidHandshake" -> {"InvalidHandshake", "WebSocketException", "Exception"}
      [] exc = "ConnectionClosed" -> {"ConnectionClosed", "WebSocketException", "Exception"}
      [] exc = "JSONDecodeError" -> {"JSONDecodeError", "ValueError", "Exception"}
      [] exc = "AttributeError" -> {"AttributeError", "Exception"}
      [] exc = "RuntimeError" -> {"RuntimeError", "Exception"}
      [] exc = "CancelledError" -> {"CancelledError", "BaseException"}
      [] exc = "URLError" -> {"URLError", "OSError", "Exception"}
      [] exc = "HTTPError" -> {"HTTPError", "URLError", "OSError", "Exception"}
      [] exc = "RemoteDisconnected" ->
            {"RemoteDisconnected", "ConnectionResetError", "ConnectionError", "OSError",
             "BadStatusLine", "HTTPException", "Exception"}
      [] exc = "IncompleteRead" -> {"IncompleteRead", "HTTPException", "Exception"}
      [] exc = "UnicodeDecodeError" -> {"UnicodeDecodeError", "ValueError", "Exception"}
      [] OTHER -> {exc}

IsInstance(exc, classes) == Bases(exc) \cap classes # {}


-----------------------------------------------------------------------------
(* execute_js: one Runtime.evaluate request over a connection of its own *)

\* The response to a successful evaluation whose value is v.
OkBody(v) ==
    DictOf([id |-> Leaf("1"), result |-> DictOf([result |-> DictOf([value |-> v])])])

\* Values an evaluation can return by value.
EvalValues ==
    {None, False, True, Int0, Int1, StrEmpty, StrText, SetupComplete, AlreadySetup,
     EmptyList, ListOf1(StrText), EmptyDict, DictOf([a |-> Int1])}

\* Well-formed responses that carry no result.result.value.
NoValueBodies ==
    { DictOf([id |-> Leaf("1"),
              result |-> DictOf([result |-> DictOf([type |-> Leaf("'undefined'")])])]),
      DictOf([id |-> Leaf("1"), result |-> DictOf([result |-> EmptyDict])]),
      DictOf([id |-> Leaf("1"), result |-> EmptyDict]),
      DictOf([id |-> Leaf("1"), error |-> DictOf([message |-> StrText])]),
      EmptyDict }

\* Valid JSON whose shape is not the expected one.
OddShapeBodies ==
    { None, StrText, Int1, EmptyList, ListOf1(EmptyDict),
      DictOf([id |-> Leaf("1"), result |-> None]),
      DictOf([id |-> Leaf("1"), result |-> StrText]),
      DictOf([id |-> Leaf("1"), result |-> EmptyList]),
      DictOf([id |-> Leaf("1"), result |-> DictOf([result |-> None])]),
      DictOf([id |-> Leaf("1"), result |-> DictOf([result |-> StrText])]),
      DictOf([id |-> Leaf("1"), result |-> DictOf([result |-> ListOf1(Int1)])]) }

\* What the transport does during one call: the step that fails and the
\* exception it raises, or the parsed body of the response received.
FailWire(step, exc) == [fail |-> step, exc |-> exc, body |-> None]
OkWire(v) == [fail |-> "", exc |-> "", body |-> OkBody(v)]
BodyWire(b) == [fail |-> "", exc |-> "", body |-> b]

TransportFailures ==
    { FailWire("connect", "ConnectionRefusedError"),
      FailWire("connect", "InvalidHandshake"),
      FailWire("connect", "TimeoutError"),
      FailWire("send", "ConnectionClosed"),
      FailWire("recv", "ConnectionClosed"),
      FailWire("recv", "ConnectionResetError"),
      FailWire("json", "JSONDecodeError") }

Wires ==
    TransportFailures
        \cup {OkWire(v) : v \in EvalValues}
        \cup {BodyWire(b) : b \in NoValueBodies \cup OddShapeBodies}

\* response.get("result", {}).get("result", {}).get("value")
extract(response) ==
    IF ~IsDict(response) THEN Raise("AttributeError")
    ELSE LET r1 == dict_get(response, "result", EmptyDict) IN
         IF ~IsDict(r1) THEN Raise("AttributeError")
         ELSE LET r2 == dict_get(r1, "result", EmptyDict) IN
              IF ~IsDict(r2) THEN Raise("AttributeError")
              ELSE Return(dict_get(r2, "value", None))

\* except (WebSocketException, json.JSONDecodeError, ConnectionError): return None
except_clause(exc) ==
    IF IsInstance(exc, {"WebSocketException", "JSONDecodeError", "ConnectionError"})
    THEN Return(None)
    ELSE Raise(exc)

\* The outcome of execute_js(ws_url, script) when the transport does `wire`.
execute_js(wire) ==
    IF wire.fail # ""
    THEN except_clause(wire.exc)
    ELSE LET r == extract(wire.body) IN
         IF r.raised # "" THEN except_clause(r.raised) ELSE r

\* The coroutines that call execute_js: monitor_debuggers (with
\* inject_to_viewer) and the task of _monitor_loop.  Each awaits its call, so
\* each has at most one call in progress.
Callers == {"recon", "monitor"}

\* The call caller c is making, or made last
CallOf(c) == <<c, e_calls[c]>>

\* websockets.connect(ws_url): a connection of this call, nothing sent on it yet
connect(conns, call) == conns \cup {[call |-> call, requests |-> 0]}

\* ws.send(...): one more request on the connection of the call
send(conns, call) ==
    {IF x.call = call THEN [x EXCEPT !.requests = @ + 1] ELSE x : x \in conns}

\* An "async with" that leaves the connection open
aexit_leaks(conns, call) == conns

\* Leaving "async with websockets.connect(ws_url) as ws", by return or by an
\* exception: the connection of the call is closed.
aexit(conns, call) == {x \in conns : x.call # call}

\* execute_js(ws_url, script) is called
E_Call(c) ==
    /\ e_pc[c] \in {"idle", "done"}
    /\ e_calls[c] < MaxEvals
    /\ e_calls' = [e_calls EXCEPT ![c] = @ + 1]
    /\ e_pc' = [e_pc EXCEPT ![c] = "start"]
    /\ \E w \in Wires : e_wire' = [e_wire EXCEPT ![c] = w]
    /\ e_ret' = [e_ret EXCEPT ![c] = NotCalled]
    /\ UNCHANGED <<connections, running, silent, waitVars, reconVars, monVars, consoleVars, stopVars>>

\* async with websockets.connect(ws_url) as ws
E_Connect(c) ==
    /\ e_pc[c] = "start"
    /\ IF e_wire[c].fail = "connect"
       THEN /\ e_pc' = [e_pc EXCEPT ![c] = "done"]
            /\ e_ret' = [e_ret EXCEPT ![c] = execute_js(e_wire[c])]
            /\ UNCHANGED connections
       ELSE /\ e_pc' = [e_pc EXCEPT ![c] = "connected"]
            /\ connections' = connect(connections, CallOf(c))
            /\ UNCHANGED e_ret
    /\ UNCHANGED <<e_wire, e_calls, running, silent, waitVars, reconVars, monVars, consoleVars, stopVars>>

\* await ws.send(json.dumps(command))
E_Send(c) ==
    /\ e_pc[c] = "connected"
    /\ IF e_wire[c].fail = "send"
       THEN /\ e_pc' = [e_pc EXCEPT ![c] = "done"]
            /\ e_ret' = [e_ret EXCEPT ![c] = execute_js(e_wire[c])]
            /\ connections' = aexit(connections, CallOf(c))
       ELSE /\ e_pc' = [e_pc EXCEPT ![c] = "sent"]
            /\ connections' = send(connections, CallOf(c))
            /\ UNCHANGED e_ret
    /\ UNCHANGED <<e_wire, e_calls, running, silent, waitVars, reconVars, monVars, consoleVars, stopVars>>

\* await ws.recv()
E_Recv(c) ==
    /\ e_pc[c] = "sent"
    /\ IF e_wire[c].fail = "recv"
       THEN /\ e_pc' = [e_pc EXCEPT ![c] = "done"]
            /\ e_ret' = [e_ret EXCEPT ![c] = execute_js(e_wire[c])]
            /\ connections' = aexit(connections, CallOf(c))
       ELSE /\ e_pc' = [e_pc EXCEPT ![c] = "received"]
            /\ UNCHANGED <<e_ret, connections>>
    /\ UNCHANGED <<e_wire, e_calls, running, silent, waitVars, reconVars, monVars, consoleVars, stopVars>>

\* json.loads, the chain of .get, return; leaving the async with closes ws
E_Return(c) ==
    /\ e_pc[c] = "received"
    /\ e_pc' = [e_pc EXCEPT ![c] = "done"]
    /\ e_ret' = [e_ret EXCEPT ![c] = execute_js(e_wire[c])]
    /\ connections' = aexit(connections, CallOf(c))
    /\ UNCHANGED <<e_wire, e_calls, running, silent, waitVars, reconVars, monVars, consoleVars, stopVars>>

\* monitoring_task.cancel() while the task of _monitor_loop is suspended in
\* execute_js, at the await of connect, send or recv: CancelledError passes
\* the except clause and leaves the async with on its way out.
E_Cancel ==
    /\ e_pc["monitor"] \in {"start", "connected", "sent"}
    /\ e_pc' = [e_pc EXCEPT !["monitor"] = "cancelled"]
    /\ e_ret' = [e_ret EXCEPT !["monitor"] = Raise("CancelledError")]
    /\ connections' = aexit(connections, CallOf("monitor"))
    /\ UNCHANGED <<e_wire, e_calls, running, silent, waitVars, reconVars, monVars, consoleVars, stopVars>>

-----------------------------------------------------------------------------
(* wait_for: poll condition_func at most max_attempts times *)

\* wait_for without its try/except: an exception of condition_func propagates.
after_attempt_no_except(o) ==
    IF o.raised = ""
    THEN IF Truthy(o.value) THEN "returned_true" ELSE "loop"
    ELSE "raised"

\* Where wait_for goes after a call of condition_func with outcome o: a truthy
\* result returns True; a falsy result or an Exception sleeps and goes round
\* the loop; what "except Exception" does not catch propagates.
after_attempt(o) ==
    IF o.raised = ""
    THEN IF Truthy(o.value) THEN "returned_true" ELSE "loop"
    ELSE IF IsInstance(o.raised, {"Exception"}) THEN "loop" ELSE "raised"

\* range(max_attempts) has another value after `made` iterations
range_has_next(made, max_attempts) == made < max_attempts

\* One round of wait_for, from one suspension point (asyncio.sleep) to the
\* next or to the return; o is the outcome of condition_func() if it is called.
wait_for_step(o) ==
    /\ w_pc = "loop"
    /\ IF range_has_next(Len(w_calls), w_budget)
       THEN /\ w_calls' = Append(w_calls, o)
            /\ w_pc' = after_attempt(o)
       ELSE /\ w_pc' = "returned_false"
            /\ UNCHANGED w_calls
    /\ UNCHANGED w_budget

\* What a condition function may do when called.
PredicateOutcomes ==
    {Return(v) : v \in {True, False, None, Int0, Int1, EmptyList, Coroutine}}
        \cup {Raise(e) : e \in {"ConnectionRefusedError", "AttributeError", "RuntimeError"}}

W_Step ==
    /\ \E o \in PredicateOutcomes : wait_for_step(o)
    /\ UNCHANGED <<running, silent, evalVars, reconVars, monVars, consoleVars, stopVars>>

-----------------------------------------------------------------------------
(* The session directory and the pages behind it *)

WsUrl(i) == <<"ws", i>>
Descriptor(i) == [id |-> i, webSocketDebuggerUrl |-> WsUrl(i)]
NoDebugger == Descriptor(0)

\* The lists the discovery resource may return: ids are unique within one list.
Snapshots ==
    LET idSeqs == UNION {[1 .. n -> Ids] : n \in 0 .. NumSessions}
        distinct == {s \in idSeqs : \A j, k \in DOMAIN s : j # k => s[j] # s[k]}
    IN  {[k \in DOMAIN s |-> Descriptor(s[k])] : s \in distinct}

\* What the discovery request does: the step that fails and the exception it
\* raises, or the list the body parses to.  urlopen wraps what fails while
\* connecting and sending in URLError and turns an error status into
\* HTTPError; what fails while the response is read is raised as it is.
HttpFailures ==
    {[fail |-> f[1], exc |-> f[2], list |-> <<>>] :
        f \in {<<"urlopen", "URLError">>, <<"urlopen", "HTTPError">>,
                <<"urlopen", "TimeoutError">>, <<"urlopen", "RemoteDisconnected">>,
                <<"read", "TimeoutError">>, <<"read", "ConnectionResetError">>,
                <<"read", "IncompleteRead">>, <<"decode", "UnicodeDecodeError">>,
                <<"loads", "JSONDecodeError">>}}

HttpOutcomes == HttpFailures \cup {[fail |-> "", exc |-> "", list |-> s] : s \in Snapshots}

\* get_debuggers returned None
Failed == [ok |-> FALSE, list |-> <<>>, raised |-> ""]

\* The outcome of get_debuggers(debug_url) when the request does `http`: the
\* list, None (ok = FALSE) where the except clause catches, or the exception.
get_debuggers(http) ==
    IF http.fail # ""
    THEN IF IsInstance(http.exc, {"URLError", "JSONDecodeError"})
         THEN Failed
         ELSE [ok |-> FALSE, list |-> <<>>, raised |-> http.exc]
    ELSE [ok |-> TRUE, list |-> http.list, raised |-> ""]

DirectoryResults == {get_debuggers(h) : h \in HttpOutcomes}

IdsOf(list) == {list[k].id : k \in DOMAIN list}

\* A test that takes every result of get_debuggers for a list to process.
debuggers_truthy_always(d) == TRUE

\* bool(debuggers): None and the empty list are both falsy
debuggers_truthy(d) == d.ok /\ Len(d.list) > 0

\* The values a page may return by value for each script the program sends.
PageValues(script) ==
    CASE script = "probe" -> {Int1}
      [] script \in {"viewer", "iframe"} -> {True, False}
      [] script = "setup" -> {SetupComplete, AlreadySetup}
      [] script \in {"messages", "errors", "warnings"} -> {EmptyList, ListOf1(StrText)}
      [] OTHER -> {}

WiresFor(script) ==
    TransportFailures
        \cup {BodyWire(b) : b \in NoValueBodies \cup OddShapeBodies}
        \cup {OkWire(v) : v \in PageValues(script)}

\* The outcomes execute_js may have for a script.
Outcomes(script) == {execute_js(w) : w \in WiresFor(script)}

\* Whether the page has run the script to completion when the transport does
\* `wire`: not if the request never left, certainly if a result came back,
\* either way if the connection broke or the response is of another kind.
MayHaveRun(wire) ==
    IF wire.fail \in {"connect", "send"} THEN {FALSE}
    ELSE IF /\ wire.fail = ""
            /\ <<"result", "result">> \in DOMAIN wire.body
            /\ wire.body[<<"result", "result">>] = "dict"
         THEN {TRUE}
         ELSE BOOLEAN

\* response = json.loads(await ws.recv()): recv has no timeout, so the call
\* completes only if the session sends something (or the connection breaks).
recv_completes(id) == id \notin silent

-----------------------------------------------------------------------------
(* monitor_debuggers and inject_to_viewer *)

\* A loop that takes every listed session for a new one
new_of_all(debuggers, known) == debuggers

\* new_debuggers = [d for d in debuggers if d["id"] not in known_ids]
new_of(debuggers, known) == SelectSeq(debuggers, LAMBDA x : x.id \notin known)

\* while is_process_running(RIDI): debuggers = get_debuggers(debug_url); ...
R_Loop ==
    /\ r_pc = "while"
    /\ IF ~running
       THEN /\ r_pc' = "stopped"
            /\ UNCHANGED <<known_ids, current_ids, new_debuggers, debugger, r_ticks,
                           injects_since_absent, unresponsive, not_viewer, r_snapshot, r_raised>>
       ELSE /\ r_ticks < MaxTicks
            /\ \E d \in DirectoryResults :
                IF d.raised # ""
                THEN /\ r_pc' = "raised"
                     /\ r_raised' = "get_debuggers"
                     /\ UNCHANGED <<current_ids, new_debuggers, injects_since_absent,
                                    unresponsive, not_viewer, r_snapshot>>
                ELSE /\ r_snapshot' = IF d.ok THEN IdsOf(d.list) ELSE r_snapshot
                     /\ unresponsive' = {}
                     /\ not_viewer' = {}
                     /\ UNCHANGED r_raised
                     /\ IF ~debuggers_truthy(d)
                        THEN /\ r_pc' = "sleep"
                             /\ UNCHANGED <<current_ids, new_debuggers, injects_since_absent>>
                        ELSE /\ current_ids' = IdsOf(d.list)
                             /\ new_debuggers' = new_of(d.list, known_ids)
                             /\ injects_since_absent' =
                                   [i \in Ids |-> IF i \in IdsOf(d.list)
                                                  THEN injects_since_absent[i] ELSE 0]
                             /\ r_pc' = "for"
            /\ UNCHANGED <<known_ids, debugger, r_ticks>>
    /\ UNCHANGED <<running, silent, JSZIP_JS, INJECT_JS, i_evals, i_ret, i_ran, inject_calls,
                   evalVars, waitVars, monVars, consoleVars, stopVars>>

\* A loop that forgets the assignment keeps the old set.
assign_known_ids_forgotten(known, current) == known

\* known_ids = current_ids, at the end of an iteration that had a snapshot
assign_known_ids(known, current) == current

\* for debugger in new_debuggers: ... ; known_ids = current_ids
R_For ==
    /\ r_pc = "for"
    /\ IF new_debuggers = <<>>
       THEN /\ known_ids' = assign_known_ids(known_ids, current_ids)
            /\ r_pc' = "sleep"
            /\ UNCHANGED <<new_debuggers, debugger>>
       ELSE /\ debugger' = Head(new_debuggers)
            /\ new_debuggers' = Tail(new_debuggers)
            /\ r_pc' = "probe"
            /\ UNCHANGED known_ids
    /\ UNCHANGED <<running, silent, r_raised, current_ids, r_ticks, JSZIP_JS, INJECT_JS, i_evals, i_ret, i_ran,
                   inject_calls, injects_since_absent, unresponsive, not_viewer, r_snapshot,
                   evalVars, waitVars, monVars, consoleVars, stopVars>>

\* if await execute_js(ws_url, "1"): ... else: logger.warning(...)
R_Probe ==
    /\ r_pc = "probe"
    /\ recv_completes(debugger.id)
    /\ \E out \in Outcomes("probe") :
        IF out.raised # ""
        THEN r_pc' = "raised" /\ UNCHANGED unresponsive
        ELSE IF Truthy(out.value)
             THEN r_pc' = "frame" /\ UNCHANGED unresponsive
             ELSE r_pc' = "for" /\ unresponsive' = unresponsive \cup {debugger.id}
    /\ r_raised' = IF r_pc' = "raised" THEN "execute_js" ELSE r_raised
    /\ UNCHANGED <<running, silent, not_viewer, known_ids, current_ids, new_debuggers, debugger, r_ticks,
                   JSZIP_JS, INJECT_JS, i_evals, i_ret, i_ran, inject_calls, injects_since_absent,
                   r_snapshot, evalVars, waitVars, monVars, consoleVars, stopVars>>

\* await execute_js(ws_url, <one animation frame>); result = await inject_to_viewer(ws_url)
R_Frame ==
    /\ r_pc = "frame"
    /\ recv_completes(debugger.id)
    /\ \E out \in Outcomes("frame") :
        IF out.raised # ""
        THEN /\ r_pc' = "raised"
             /\ UNCHANGED <<i_evals, i_ret, i_ran, inject_calls, injects_since_absent>>
        ELSE /\ r_pc' = "viewer"
             /\ i_evals' = <<>>
             /\ i_ran' = <<>>
             /\ i_ret' = NotCalled
             /\ inject_calls' = [inject_calls EXCEPT ![debugger.id] = @ + 1]
             /\ injects_since_absent' = [injects_since_absent EXCEPT ![debugger.id] = @ + 1]
    /\ r_raised' = IF r_pc' = "raised" THEN "execute_js" ELSE r_raised
    /\ UNCHANGED <<running, silent, known_ids, current_ids, new_debuggers, debugger, r_ticks,
                   JSZIP_JS, INJECT_JS, unresponsive, not_viewer, r_snapshot,
                   evalVars, waitVars, monVars, consoleVars, stopVars>>

\* if not await execute_js(ws_url, "location.href.endsWith('Viewer');"): return False
I_Viewer ==
    /\ r_pc = "viewer"
    /\ recv_completes(debugger.id)
    /\ i_evals' = Append(i_evals, "viewer")
    /\ \E out \in Outcomes("viewer") :
        /\ not_viewer' = IF out = Return(False) THEN not_viewer \cup {debugger.id}
                                                ELSE not_viewer
        /\ IF out.raised # ""
           THEN r_pc' = "raised" /\ i_ret' = out /\ UNCHANGED waitVars
           ELSE IF ~Truthy(out.value)
                THEN r_pc' = "for" /\ i_ret' = Return(False) /\ UNCHANGED waitVars
                ELSE /\ r_pc' = "wait_iframe"
                     /\ w_pc' = "loop"
                     /\ w_budget' = MAX_WAIT
                     /\ w_calls' = <<>>
                     /\ UNCHANGED i_ret
    /\ r_raised' = IF r_pc' = "raised" THEN "execute_js" ELSE r_raised
    /\ UNCHANGED <<running, silent, known_ids, current_ids, new_debuggers, debugger, r_ticks,
                   JSZIP_JS, INJECT_JS, i_ran, inject_calls, injects_since_absent, unresponsive,
                   r_snapshot, evalVars, monVars, consoleVars, stopVars>>

\* lambda: execute_js(ws_url, "!!document.querySelector('iframe');")
\* Calling the coroutine function without await returns a coroutine object:
\* nothing is sent to the page.
condition_func_iframe == Return(Coroutine)

\* if not await wait_for(lambda: ...): logger.warning(...); return False
I_WaitFor ==
    /\ r_pc = "wait_iframe"
    /\ wait_for_step(condition_func_iframe)
    /\ IF w_pc' = "returned_true"
       THEN r_pc' = "frames60" /\ UNCHANGED i_ret
       ELSE IF w_pc' = "returned_false"
            THEN r_pc' = "for" /\ i_ret' = Return(False)
            ELSE IF w_pc' = "raised"
                 THEN r_pc' = "raised" /\ i_ret' = condition_func_iframe
                 ELSE UNCHANGED <<r_pc, i_ret>>
    /\ r_raised' = IF r_pc' = "raised" THEN "wait_for" ELSE r_raised
    /\ UNCHANGED <<running, silent, known_ids, current_ids, new_debuggers, debugger, r_ticks,
                   JSZIP_JS, INJECT_JS, i_evals, i_ran, inject_calls, injects_since_absent,
                   unresponsive, not_viewer, r_snapshot, evalVars, monVars, consoleVars, stopVars>>

\* await execute_js(ws_url, <60 animation frames>); if not JSZIP_JS: return False
I_Frames60 ==
    /\ r_pc = "frames60"
    /\ recv_completes(debugger.id)
    /\ i_evals' = Append(i_evals, "frames60")
    /\ \E w \in WiresFor("frames60") : \E ran \in MayHaveRun(w) :
        LET out == execute_js(w) IN
        /\ i_ran' = IF ran THEN Append(i_ran, "frames60") ELSE i_ran
        /\ IF out.raised # ""
           THEN r_pc' = "raised" /\ i_ret' = out
           ELSE IF ~Truthy(JSZIP_JS)
                THEN r_pc' = "for" /\ i_ret' = Return(False)
                ELSE r_pc' = "jszip" /\ UNCHANGED i_ret
    /\ r_raised' = IF r_pc' = "raised" THEN "execute_js" ELSE r_raised
    /\ UNCHANGED <<running, silent, known_ids, current_ids, new_debuggers, debugger, r_ticks,
                   JSZIP_JS, INJECT_JS, inject_calls, injects_since_absent, unresponsive, not_viewer,
                   r_snapshot, evalVars, waitVars, monVars, consoleVars, stopVars>>

\* await execute_js(ws_url, JSZIP_JS); if not INJECT_JS: return False
I_Jszip ==
    /\ r_pc = "jszip"
    /\ recv_completes(debugger.id)
    /\ i_evals' = Append(i_evals, "jszip")
    /\ \E w \in WiresFor("jszip") : \E ran \in MayHaveRun(w) :
        LET out == execute_js(w) IN
        /\ i_ran' = IF ran THEN Append(i_ran, "jszip") ELSE i_ran
        /\ IF out.raised # ""
           THEN r_pc' = "raised" /\ i_ret' = out
           ELSE IF ~Truthy(INJECT_JS)
                THEN r_pc' = "for" /\ i_ret' = Return(False)
                ELSE r_pc' = "inject" /\ UNCHANGED i_ret
    /\ r_raised' = IF r_pc' = "raised" THEN "execute_js" ELSE r_raised
    /\ UNCHANGED <<running, silent, known_ids, current_ids, new_debuggers, debugger, r_ticks,
                   JSZIP_JS, INJECT_JS, inject_calls, injects_since_absent, unresponsive, not_viewer,
                   r_snapshot, evalVars, waitVars, monVars, consoleVars, stopVars>>

\* await execute_js(ws_url, INJECT_JS), and the function ends without a return
I_Inject ==
    /\ r_pc = "inject"
    /\ recv_completes(debugger.id)
    /\ i_evals' = Append(i_evals, "inject")
    /\ \E w \in WiresFor("inject") : \E ran \in MayHaveRun(w) :
        LET out == execute_js(w) IN
        /\ i_ran' = IF ran THEN Append(i_ran, "inject") ELSE i_ran
        /\ IF out.raised # ""
           THEN r_pc' = "raised" /\ i_ret' = out
           ELSE r_pc' = "for" /\ i_ret' = Return(None)
    /\ r_raised' = IF r_pc' = "raised" THEN "execute_js" ELSE r_raised
    /\ UNCHANGED <<running, silent, known_ids, current_ids, new_debuggers, debugger, r_ticks,
                   JSZIP_JS, INJECT_JS, inject_calls, injects_since_absent, unresponsive, not_viewer,
                   r_snapshot, evalVars, waitVars, monVars, consoleVars, stopVars>>

\* if result: logger.info("... Successfully injected") else: logger.debug("... Not a
\* viewer or injection failed"): what the loop reports for a returned result
report(result) ==
    IF Truthy(result) THEN "Successfully injected" ELSE "Not a viewer or injection failed"

\* await asyncio.sleep(TIMEOUT), then the next iteration of the while loop
R_Sleep ==
    /\ r_pc = "sleep"
    /\ r_pc' = "while"
    /\ r_ticks' = r_ticks + 1
    /\ UNCHANGED <<running, silent, r_raised, known_ids, current_ids, new_debuggers, debugger,
                   JSZIP_JS, INJECT_JS, i_evals, i_ret, i_ran, inject_calls, injects_since_absent,
                   unresponsive, not_viewer, r_snapshot, evalVars, waitVars, monVars, consoleVars, stopVars>>

\* The host process exits.
HostExit ==
    /\ running
    /\ running' = FALSE
    /\ UNCHANGED <<silent, evalVars, waitVars, reconVars, monVars, consoleVars, stopVars>>

-----------------------------------------------------------------------------
(* DebuggerMonitor: _monitor_loop and _poll_debugger_output *)

Item(d) == [debugger_id |-> d.id, ws_url |-> d.webSocketDebuggerUrl]
NoItem == Item(NoDebugger)

KeysOf(dict) == {dict[k].debugger_id : k \in DOMAIN dict}

\* The dict after "Add new debuggers to monitoring" alone: closed debuggers
\* stay in it.
update_active_debuggers_no_removal(active, debuggers) ==
    LET new == SelectSeq(debuggers, LAMBDA d : d.id \notin KeysOf(active))
    IN  active \o [k \in DOMAIN new |-> Item(new[k])]

\* The dict after "Add new debuggers to monitoring" and "Remove debuggers that
\* are no longer active", for the list `debuggers`.
update_active_debuggers(active, debuggers) ==
    LET new == SelectSeq(debuggers, LAMBDA d : d.id \notin KeysOf(active))
        added == active \o [k \in DOMAIN new |-> Item(new[k])]
    IN  SelectSeq(added, LAMBDA it : it.debugger_id \in IdsOf(debuggers))

\* while is_process_running(RIDI): try: debuggers = get_debuggers(...); if debuggers: ...
M_Loop ==
    /\ m_pc = "while"
    /\ IF ~running
       THEN /\ m_pc' = "stopped"
            /\ UNCHANGED <<active_debuggers, m_queue, m_snapshot, m_polled>>
       ELSE /\ m_ticks < MaxTicks
            /\ \E d \in DirectoryResults :
                /\ m_snapshot' = d
                /\ m_polled' = {}
                /\ IF d.raised # ""
                   THEN /\ m_pc' = IF IsInstance(d.raised, {"Exception"}) THEN "sleep" ELSE "raised"
                        /\ UNCHANGED <<active_debuggers, m_queue>>
                   ELSE IF debuggers_truthy(d)
                        THEN /\ active_debuggers' = update_active_debuggers(active_debuggers, d.list)
                             /\ m_queue' = active_debuggers'
                             /\ m_pc' = "poll"
                        ELSE /\ m_pc' = "sleep"
                             /\ UNCHANGED <<active_debuggers, m_queue>>
    /\ UNCHANGED <<running, silent, m_ticks, m_debugger, evalVars, waitVars, reconVars,
                   consoleVars, stopVars>>

\* for debugger_id, ws_url in self.active_debuggers.items(): await self._poll_debugger_output(...)
M_For ==
    /\ m_pc = "poll"
    /\ IF m_queue = <<>>
       THEN /\ m_pc' = "sleep"
            /\ UNCHANGED <<m_queue, m_debugger, m_polled>>
       ELSE /\ m_debugger' = Head(m_queue)
            /\ m_queue' = Tail(m_queue)
            /\ m_polled' = m_polled \cup {Head(m_queue).debugger_id}
            /\ m_pc' = "setup"
    /\ UNCHANGED <<running, silent, active_debuggers, m_ticks, m_snapshot,
                   evalVars, waitVars, reconVars, consoleVars, stopVars>>

\* Where an exception raised inside _poll_debugger_output ends up: the except
\* clause of _poll_debugger_output logs it and the for loop goes on; any other
\* Exception reaches "except Exception" of _monitor_loop, outside the for loop.
poll_except(exc) ==
    IF IsInstance(exc, {"WebSocketException", "JSONDecodeError", "ConnectionError"})
    THEN "poll"
    ELSE "sleep"

\* One evaluation of _poll_debugger_output: the script sent and the position after it.
poll_step(script, next) ==
    /\ recv_completes(m_debugger.debugger_id)
    /\ \E out \in Outcomes(script) :
        IF out.raised # ""
        THEN /\ m_pc' = poll_except(out.raised)
             /\ m_queue' = IF m_pc' = "sleep" THEN <<>> ELSE m_queue
        ELSE /\ m_pc' = next
             /\ UNCHANGED m_queue
    /\ UNCHANGED <<running, silent, active_debuggers, m_debugger, m_ticks, m_snapshot, m_polled,
                   evalVars, waitVars, reconVars, consoleVars, stopVars>>

\* await self._setup_console_collector(ws_url)
M_Setup ==
    /\ m_pc = "setup"
    /\ poll_step("setup", "messages")

\* console_messages = await execute_js(ws_url, <read and clear consoleMessages>)
M_Messages ==
    /\ m_pc = "messages"
    /\ poll_step("messages", "errors")

\* errors = await execute_js(ws_url, <read and clear consoleErrors>)
M_Errors ==
    /\ m_pc = "errors"
    /\ poll_step("errors", "warnings")

\* warnings = await execute_js(ws_url, <read and clear consoleWarnings>)
M_Warnings ==
    /\ m_pc = "warnings"
    /\ poll_step("warnings", "poll")

\* await asyncio.sleep(self.polling_interval)
M_Sleep ==
    /\ m_pc = "sleep"
    /\ m_pc' = "while"
    /\ m_ticks' = m_ticks + 1
    /\ UNCHANGED <<running, silent, active_debuggers, m_queue, m_debugger, m_snapshot, m_polled,
                   evalVars, waitVars, reconVars, consoleVars, stopVars>>

-----------------------------------------------------------------------------
(* The console collector in the page, and _poll_debugger_output against it *)

\* A JavaScript string: the text the wrapper pushes for console call number n,
\* behind the prefix the wrapper puts before it.
StrOf(prefix, n) ==
    [p \in {<<>>, <<"prefix">>, <<"text">>}
        |-> IF p = <<>> THEN "str" ELSE IF p = <<"prefix">> THEN prefix ELSE ToString(n)]

\* The list whose elements are those of the sequence elems, as returned by value.
ListOf(elems) ==
    [p \in {<<>>} \cup UNION {{<<ToString(k - 1)>> \o q : q \in DOMAIN elems[k]} : k \in DOMAIN elems}
        |-> IF p = <<>> THEN "list"
            ELSE elems[CHOOSE k \in DOMAIN elems : ToString(k - 1) = Head(p)][Tail(p)]]

\* for x in v: the elements of a list value, in order
Items(v) ==
    LET n == Cardinality({Head(p) : p \in DOMAIN v \ {<<>>}})
    IN  [k \in 1 .. n |-> Sub(v, ToString(k - 1))]

Buffers == {"messages", "errors", "warnings"}

\* A fresh page context: nothing of the collector is defined.
NewPage ==
    [setup |-> FALSE, enable |-> FALSE, wraps |-> 0, listeners |-> 0, installs |-> 0,
     messages |-> <<>>, errors |-> <<>>, warnings |-> <<>>]

\* The collector script without its first line: every run installs again.
setup_script_unguarded(pg) ==
    [page |-> [pg EXCEPT !.enable = FALSE, !.messages = <<>>, !.errors = <<>>,
                         !.warnings = <<>>, !.wraps = @ + 1, !.listeners = @ + 1,
                         !.setup = TRUE, !.installs = @ + 1],
     value |-> SetupComplete]

\* The script of _setup_console_collector evaluated in page context pg: the
\* page after it and the value it returns.
setup_script(pg) ==
    IF pg.setup
    THEN [page |-> [pg EXCEPT !.installs = @ + 1], value |-> AlreadySetup]
    ELSE [page |-> [pg EXCEPT !.enable = FALSE, !.messages = <<>>, !.errors = <<>>,
                              !.warnings = <<>>, !.wraps = @ + 1, !.listeners = @ + 1,
                              !.setup = TRUE, !.installs = @ + 1],
          value |-> SetupComplete]

\* A drain script that returns the buffer and leaves it in place.
drain_script_keeps(pg, buf) ==
    [page |-> pg, value |-> ListOf(pg[buf])]

\* const x = window.<buf> || []; window.<buf> = []; return x;
drain_script(pg, buf) ==
    [page |-> [pg EXCEPT ![buf] = <<>>], value |-> ListOf(pg[buf])]

\* What the wrapper of a buffer puts before the text of the call.
Prefix(buf) == IF buf = "warnings" THEN "WARN: " ELSE ""

\* console.log / console.error / console.warn called in the page, as call
\* number n: each wrapper layer pushes one entry, and passes the call on to
\* the function it replaced only if window.__enableConsoleOutput is set.
console_call(pg, buf, n) ==
    LET pushes == IF pg.wraps = 0 THEN 0 ELSE IF pg.enable THEN pg.wraps ELSE 1
    IN  [pg EXCEPT ![buf] = @ \o [k \in 1 .. pushes |-> StrOf(Prefix(buf), n)]]

\* An uncaught error event, as event number n: every registered listener pushes.
error_event(pg, n) ==
    [pg EXCEPT !.errors = @ \o [k \in 1 .. pg.listeners |-> StrOf("UNCAUGHT: ", n)]]

\* The numbers of the entries a buffer or a log holds.
EntryNo(entry) == CHOOSE n \in 1 .. MaxCalls : entry[<<"text">>] = ToString(n)
EntryNos(entries) == {EntryNo(entries[k]) : k \in DOMAIN entries}
Buffered(pg) == UNION {EntryNos(pg[b]) : b \in Buffers}


\* What the transport may do during an evaluation whose value in the page is
\* v: fail, deliver an error response or a response of another shape, or
\* deliver the value.
WiresOf(v) ==
    TransportFailures
        \cup {BodyWire(DictOf([id |-> Leaf("1"), error |-> DictOf([message |-> StrText])])),
              BodyWire(DictOf([id |-> Leaf("1"), result |-> None]))}
        \cup {OkWire(v)}

\* if x and isinstance(x, list) and len(x) > 0: for e in x: logger...(e)
log_entries(x) == IF Truthy(x) /\ Tag(x) = "list" THEN Items(x) ELSE <<>>

\* await self._poll_debugger_output(debugger_id, ws_url), called once more
K_Poll ==
    /\ m_pc = "poll"
    /\ k_polls < MaxPolls
    /\ k_polls' = k_polls + 1
    /\ m_pc' = "setup"
    /\ UNCHANGED <<running, silent, active_debuggers, m_queue, m_debugger, m_ticks,
                   m_snapshot, m_polled, page, k_calls, k_log, k_owed, k_clean,
                   evalVars, waitVars, reconVars, stopVars>>

\* One evaluation of _poll_debugger_output against the page: res is what the
\* script does in the page, buf the buffer it drains ("" for the collector
\* script), next the position after it.  A script is not run if the request
\* never left and has run if its value came back; an exception that leaves
\* execute_js ends the call.
console_step(res, buf, next) ==
    /\ recv_completes(m_debugger.debugger_id)
    /\ \E w \in WiresOf(res.value) : \E ran \in MayHaveRun(w) :
        /\ page' = IF ran THEN res.page ELSE page
        /\ k_clean' = IF ran /\ buf \in Buffers THEN [k_clean EXCEPT ![buf] = TRUE] ELSE k_clean
        /\ LET out == execute_js(w)
               logged == IF out.raised = "" /\ buf \in Buffers
                         THEN log_entries(out.value) ELSE <<>>
           IN  /\ m_pc' = IF out.raised # "" THEN "poll" ELSE next
               /\ k_log' = IF logged # <<>> THEN [k_log EXCEPT ![buf] = Append(@, logged)] ELSE k_log
               /\ k_owed' = k_owed \ EntryNos(logged)
    /\ UNCHANGED <<running, silent, active_debuggers, m_queue, m_debugger, m_ticks,
                   m_snapshot, m_polled, k_calls, k_polls, evalVars, waitVars, reconVars, stopVars>>

\* await self._setup_console_collector(ws_url)
K_Setup ==
    /\ m_pc = "setup"
    /\ console_step(setup_script(page), "", "messages")

\* console_messages = await execute_js(...); for msg in console_messages: logger.debug
K_Messages ==
    /\ m_pc = "messages"
    /\ console_step(drain_script(page, "messages"), "messages", "errors")

\* errors = await execute_js(...); for error in errors: logger.error
K_Errors ==
    /\ m_pc = "errors"
    /\ console_step(drain_script(page, "errors"), "errors", "warnings")

\* warnings = await execute_js(...); for warning in warnings: logger.warning
K_Warnings ==
    /\ m_pc = "warnings"
    /\ console_step(drain_script(page, "warnings"), "warnings", "poll")

\* What a step of the page's own script does to the histories.
page_step(pg, buf) ==
    /\ k_calls' = k_calls + 1
    /\ page' = pg
    /\ k_owed' = IF pg[buf] # page[buf] THEN k_owed \cup {k_calls + 1} ELSE k_owed
    /\ k_clean' = IF pg[buf] # page[buf] THEN [k_clean EXCEPT ![buf] = FALSE] ELSE k_clean
    /\ UNCHANGED <<running, silent, k_polls, k_log, evalVars, waitVars, reconVars, monVars, stopVars>>

\* The page calls console.log, console.error or console.warn.
P_Write ==
    /\ k_calls < MaxCalls
    /\ \E buf \in Buffers : page_step(console_call(page, buf, k_calls + 1), buf)

\* An uncaught error is reported to the window.
P_Error ==
    /\ k_calls < MaxCalls
    /\ page_step(error_event(page, k_calls + 1), "errors")

\* The page sets window.__enableConsoleOutput.
P_Enable ==
    /\ ~page.enable
    /\ page' = [page EXCEPT !.enable = TRUE]
    /\ UNCHANGED <<running, silent, k_calls, k_polls, k_log, k_owed, k_clean,
                   evalVars, waitVars, reconVars, monVars, stopVars>>

\* The session navigates or reloads: a new page context replaces the old one.
P_Reload ==
    /\ page # NewPage
    /\ page' = NewPage
    /\ k_owed' = {}
    /\ UNCHANGED <<running, silent, k_calls, k_polls, k_log, k_clean,
                   evalVars, waitVars, reconVars, monVars, stopVars>>

-----------------------------------------------------------------------------
(* DebuggerMonitor.stop_monitoring and the cancellation of the monitor task *)

\* The steps of the task running _monitor_loop
MonStep ==
    \/ M_Loop \/ M_For \/ M_Setup \/ M_Messages \/ M_Errors \/ M_Warnings
    \/ M_Sleep

\* The positions at which the task is suspended in an await of execute_js.
EvalPcs == {"setup", "messages", "errors", "warnings"}

\* Where a CancelledError thrown into the task at position pc ends up: in an
\* evaluation it passes the except clauses of execute_js and of
\* _poll_debugger_output and "except Exception" of _monitor_loop; the sleep
\* is outside the try.  A clause that caught it would let the loop go on.
cancel_lands(pc) ==
    LET handlers == IF pc \in EvalPcs
                    THEN {"WebSocketException", "JSONDecodeError", "ConnectionError", "Exception"}
                    ELSE {}
    IN  IF IsInstance("CancelledError", handlers) THEN "sleep" ELSE "cancelled"

\* The task is done: _monitor_loop returned or was cancelled.
task_done(pc) == pc \in {"stopped", "cancelled"}

\* stop_monitoring without "await self.monitoring_task"
await_task_skipped(pc) == TRUE

\* try: await self.monitoring_task; except asyncio.CancelledError: pass
\* completes once the task is done
await_task(pc) == task_done(pc)

\* A stop_monitoring that also empties the dict of tracked sessions
S_Stop_clears ==
    /\ s_pc = "idle"
    /\ m_pc # "poll"
    /\ s_pc' = "awaiting"
    /\ m_cancel' = ~task_done(m_pc)
    /\ s_at' = m_pc
    /\ active_debuggers' = <<>>
    /\ UNCHANGED <<running, silent, evalVars, waitVars, reconVars, consoleVars,
                   m_pc, m_queue, m_debugger, m_ticks, m_snapshot, m_polled>>

\* if self.monitoring_task: self.monitoring_task.cancel().  The caller runs
\* while the task is suspended at an await, not yet started, or done; cancel()
\* on a task that is done requests nothing.
S_Stop ==
    /\ s_pc = "idle"
    /\ m_pc # "poll"
    /\ s_pc' = "awaiting"
    /\ m_cancel' = ~task_done(m_pc)
    /\ s_at' = m_pc
    /\ UNCHANGED <<running, silent, evalVars, waitVars, reconVars, monVars, consoleVars>>

\* The event loop resumes the task by throwing CancelledError at its await.
T_Cancelled ==
    /\ m_cancel
    /\ m_cancel' = FALSE
    /\ m_pc' = cancel_lands(m_pc)
    /\ UNCHANGED <<running, silent, active_debuggers, m_queue, m_debugger, m_ticks,
                   m_snapshot, m_polled, s_pc, s_at, evalVars, waitVars, reconVars,
                   consoleVars>>

\* The event loop resumes the task with the result of its await.
T_Resume ==
    /\ ~m_cancel
    /\ MonStep

\* logger.info("[debugger] Stopped debugger monitoring"), and return
S_Return ==
    /\ s_pc = "awaiting"
    /\ await_task(m_pc)
    /\ s_pc' = "returned"
    /\ UNCHANGED <<running, silent, m_cancel, s_at, evalVars, waitVars, reconVars,
                   monVars, consoleVars>>

-----------------------------------------------------------------------------
(* Specifications of the two functions taken alone *)

IdleWire == BodyWire(None)

EvalIdle ==
    /\ e_pc = [c \in Callers |-> "idle"]
    /\ e_wire = [c \in Callers |-> IdleWire]
    /\ e_ret = [c \in Callers |-> NotCalled]
    /\ e_calls = [c \in Callers |-> 0]
    /\ connections = {}

WaitIdle ==
    /\ w_pc = "idle"
    /\ w_budget = 0
    /\ w_calls = <<>>

ReconIdle ==
    /\ r_pc = "idle"
    /\ known_ids = {}
    /\ current_ids = {}
    /\ new_debuggers = <<>>
    /\ debugger = NoDebugger
    /\ r_ticks = 0
    /\ JSZIP_JS = False
    /\ INJECT_JS = False
    /\ i_evals = <<>>
    /\ i_ret = NotCalled
    /\ i_ran = <<>>
    /\ inject_calls = [i \in Ids |-> 0]
    /\ injects_since_absent = [i \in Ids |-> 0]
    /\ unresponsive = {}
    /\ not_viewer = {}
    /\ r_snapshot = {}
    /\ r_raised = ""

MonIdle ==
    /\ m_pc = "idle"
    /\ active_debuggers = <<>>
    /\ m_queue = <<>>
    /\ m_debugger = NoItem
    /\ m_ticks = 0
    /\ m_snapshot = Failed
    /\ m_polled = {}

ConsoleIdle ==
    /\ page = NewPage
    /\ k_calls = 0
    /\ k_polls = 0
    /\ k_log = [b \in Buffers |-> <<>>]
    /\ k_owed = {}
    /\ k_clean = [b \in Buffers |-> FALSE]

StopIdle ==
    /\ s_pc = "idle"
    /\ m_cancel = FALSE
    /\ s_at = ""

\* execute_js called once, on any behaviour of the transport
InitEval ==
    /\ running = TRUE
    /\ silent = {}
    /\ e_pc = [c \in Callers |-> IF c = "recon" THEN "start" ELSE "idle"]
    /\ \E w \in Wires : e_wire = [c \in Callers |-> IF c = "recon" THEN w ELSE IdleWire]
    /\ e_ret = [c \in Callers |-> NotCalled]
    /\ e_calls = [c \in Callers |-> IF c = "recon" THEN 1 ELSE 0]
    /\ connections = {}
    /\ WaitIdle /\ ReconIdle /\ MonIdle /\ ConsoleIdle /\ StopIdle

NextEval ==
    \E c \in Callers : E_Connect(c) \/ E_Send(c) \/ E_Recv(c) \/ E_Return(c)

SpecEval == InitEval /\ [][NextEval]_vars

\* The calls of execute_js the two coroutines make, each one call after the
\* other, on any behaviour of the transport; the task of _monitor_loop may be
\* cancelled in the middle of a call.
InitCalls ==
    /\ running = TRUE
    /\ silent = {}
    /\ EvalIdle
    /\ WaitIdle /\ ReconIdle /\ MonIdle /\ ConsoleIdle /\ StopIdle

NextCalls ==
    \/ \E c \in Callers : E_Call(c) \/ E_Connect(c) \/ E_Send(c) \/ E_Recv(c) \/ E_Return(c)
    \/ E_Cancel

SpecCalls == InitCalls /\ [][NextCalls]_vars

\* wait_for called once, with any budget up to MaxBudget
InitWait ==
    /\ running = TRUE
    /\ silent = {}
    /\ w_pc = "loop"
    /\ w_budget \in 0 .. MaxBudget
    /\ w_calls = <<>>
    /\ EvalIdle /\ ReconIdle /\ MonIdle /\ ConsoleIdle /\ StopIdle

NextWait == W_Step

SpecWait == InitWait /\ [][NextWait]_vars

\* The locals of monitor_debuggers and the module constants as the first
\* iteration finds them
ReconStart ==
    /\ r_pc = "while"
    /\ known_ids = {}
    /\ current_ids = {}
    /\ new_debuggers = <<>>
    /\ debugger = NoDebugger
    /\ r_ticks = 0
    /\ JSZIP_JS \in {StrText, False}
    /\ INJECT_JS \in {StrText, False}
    /\ i_evals = <<>>
    /\ i_ret = NotCalled
    /\ i_ran = <<>>
    /\ inject_calls = [i \in Ids |-> 0]
    /\ injects_since_absent = [i \in Ids |-> 0]
    /\ unresponsive = {}
    /\ not_viewer = {}
    /\ r_snapshot = {}
    /\ r_raised = ""

\* monitor_debuggers from its first iteration, the console monitor left out
InitRecon ==
    /\ running = TRUE
    /\ silent = {}
    /\ ReconStart
    /\ EvalIdle /\ WaitIdle /\ MonIdle /\ ConsoleIdle /\ StopIdle

\* The steps of the coroutine monitor_debuggers
ReconStep ==
    \/ R_Loop \/ R_For \/ R_Probe \/ R_Frame
    \/ I_Viewer \/ I_WaitFor \/ I_Frames60 \/ I_Jszip \/ I_Inject
    \/ R_Sleep

NextRecon == ReconStep \/ HostExit

SpecRecon == InitRecon /\ [][NextRecon]_vars

\* monitor_debuggers among sessions some of which never answer a request.
InitReconLive ==
    /\ running = TRUE
    /\ silent \in SUBSET Ids
    /\ ReconStart
    /\ EvalIdle /\ WaitIdle /\ MonIdle /\ ConsoleIdle /\ StopIdle

\* The event loop resumes a coroutine whose awaited sleep or receive has
\* completed: a step of monitor_debuggers that stays possible is taken.
SpecReconLive == InitReconLive /\ [][NextRecon]_vars /\ WF_vars(ReconStep)

\* The monitor and its task as start_monitoring leaves them
MonStart ==
    /\ m_pc = "while"
    /\ active_debuggers = <<>>
    /\ m_queue = <<>>
    /\ m_debugger = NoItem
    /\ m_ticks = 0
    /\ m_snapshot = Failed
    /\ m_polled = {}

\* _monitor_loop from its first iteration, the reconciliation loop left out
InitMon ==
    /\ running = TRUE
    /\ silent = {}
    /\ MonStart
    /\ EvalIdle /\ WaitIdle /\ ReconIdle /\ ConsoleIdle /\ StopIdle

NextMon == MonStep \/ HostExit

SpecMon == InitMon /\ [][NextMon]_vars

\* The monitor task, among sessions some of which never answer, and one call
\* of stop_monitoring made at any moment the task is not running
InitStop ==
    /\ running = TRUE
    /\ silent \in SUBSET Ids
    /\ MonStart
    /\ s_pc = "idle"
    /\ m_cancel = FALSE
    /\ s_at = ""
    /\ EvalIdle /\ WaitIdle /\ ReconIdle /\ ConsoleIdle

NextStop == T_Resume \/ T_Cancelled \/ S_Stop \/ S_Return \/ HostExit

SpecStop == InitStop /\ [][NextStop]_vars

\* _poll_debugger_output called again and again on one tracked session, whose
\* page writes to the console, raises errors and reloads in between
InitConsole ==
    /\ running = TRUE
    /\ silent = {}
    /\ m_pc = "poll"
    /\ active_debuggers = <<Item(Descriptor(1))>>
    /\ m_queue = <<>>
    /\ m_debugger = Item(Descriptor(1))
    /\ m_ticks = 0
    /\ m_snapshot = Failed
    /\ m_polled = {}
    /\ ConsoleIdle /\ StopIdle
    /\ EvalIdle /\ WaitIdle /\ ReconIdle

NextConsole ==
    \/ K_Poll \/ K_Setup \/ K_Messages \/ K_Errors \/ K_Warnings
    \/ P_Write \/ P_Error \/ P_Enable \/ P_Reload

SpecConsole == InitConsole /\ [][NextConsole]_vars

\* The positions at which monitor_debuggers is suspended in an await of
\* execute_js, its own or one of inject_to_viewer.
ReconEvalPcs == {"probe", "frame", "viewer", "frames60", "jszip", "inject"}

\* The sessions the directory lists while the two loops are followed together:
\* the loops meet in the event loop and in the task handle, not in a session.
BothIds == {1}

\* monitor_debuggers after "await monitor.start_monitoring()": its own loop at
\* the first iteration, and the task of _monitor_loop created and not yet run
InitBoth ==
    /\ running = TRUE
    /\ silent \in SUBSET BothIds
    /\ ReconStart
    /\ MonStart
    /\ StopIdle
    /\ EvalIdle /\ WaitIdle /\ ConsoleIdle

\* A step of the coroutine monitor_debuggers, up to its next await
B_Recon ==
    /\ (r_pc = "while" /\ running) => r_ticks + m_ticks < BothTicks
    /\ ReconStep
    /\ current_ids' \subseteq BothIds

\* A step of the task of _monitor_loop, up to its next await
B_Mon ==
    /\ (m_pc = "while" /\ running) => r_ticks + m_ticks < BothTicks
    /\ T_Resume
    /\ IdsOf(m_snapshot'.list) \subseteq BothIds

\* monitor_debuggers without the finally clause: it returns or re-raises and
\* leaves the monitor task alone
B_Finally_missing ==
    /\ r_pc \in {"stopped", "raised"}
    /\ s_pc = "idle"
    /\ s_pc' = "returned"
    /\ UNCHANGED <<running, silent, m_cancel, s_at, evalVars, waitVars, reconVars,
                   monVars, consoleVars>>

\* finally: await monitor.stop_monitoring(), entered when the while loop has
\* ended or an exception has left the try block
B_Finally ==
    /\ r_pc \in {"stopped", "raised"}
    /\ S_Stop

NextBoth == B_Recon \/ B_Mon \/ T_Cancelled \/ B_Finally \/ S_Return \/ HostExit

SpecBoth == InitBoth /\ [][NextBoth]_vars

\* The event loop runs every coroutine that is ready: one whose awaited
\* receive, sleep or task has completed is resumed, and a cancellation
\* requested for a task is delivered.
SpecBothFair ==
    /\ SpecBoth
    /\ WF_vars(B_Recon) /\ WF_vars(B_Mon) /\ WF_vars(T_Cancelled)
    /\ WF_vars(B_Finally) /\ WF_vars(S_Return)

-----------------------------------------------------------------------------
(* The claims *)

\* C1: after every completed tick of the reconciliation loop, known_ids is the
\* id set of the most recent snapshot get_debuggers returned (an empty list
\* being a snapshot of zero sessions); a failed fetch leaves it unchanged.
C1_KnownIdsIsLatestSnapshot ==
    r_pc = "sleep" => known_ids = r_snapshot

\* C2, as claimed: inject_to_viewer is called at most once for any session id
\* over the lifetime of the loop.
C2_InjectAtMostOncePerId ==
    \A i \in Ids : inject_calls[i] <= 1

\* C2, amended: between two calls of inject_to_viewer for the same session id
\* the loop has processed a snapshot that does not list the id.
C2_InjectOncePerListing ==
    \A i \in Ids : injects_since_absent[i] <= 1

\* A session injected, dropped from a processed snapshot, listed and injected again.
C2_Witness ==
    \E i \in Ids : inject_calls[i] = 2 /\ injects_since_absent[i] = 1

\* C3: inject_to_viewer sends the 60-frame wait and the payloads only after an
\* evaluation of the iframe check in the same call; a wait in which no check
\* was evaluated ends only after MAX_WAIT attempts, with failure.
C3_IframeCheckedBeforeInjection ==
    /\ \A k \in DOMAIN i_evals :
          i_evals[k] \in {"frames60", "jszip", "inject"}
              => \E j \in 1 .. (k - 1) : i_evals[j] = "iframe"
    /\ (r_pc \notin {"idle", "wait_iframe"} /\ w_pc # "idle"
            /\ \A j \in DOMAIN i_evals : i_evals[j] # "iframe")
          => (w_pc = "returned_false" /\ Len(w_calls) = MAX_WAIT)

\* C4: a session whose liveness probe was unresponsive in a tick is not in
\* known_ids when that tick ends.
C4_UnresponsiveNotKnown ==
    r_pc = "sleep" => unresponsive \cap known_ids = {}

HasResultValue(b) ==
    /\ <<"result", "result", "value">> \in DOMAIN b
    /\ b[<<>>] = "dict"
    /\ b[<<"result">>] = "dict"
    /\ b[<<"result", "result">>] = "dict"

IsFailureWire(w) == w.fail # "" \/ ~HasResultValue(w.body)

\* C5: what execute_js returns for a failed call differs from what it returns
\* for every successful evaluation, whatever the value evaluated.
C5_FailureDistinctFromValues ==
    \A c \in Callers :
        (e_pc[c] = "done" /\ IsFailureWire(e_wire[c]))
            => \A v \in EvalValues : e_ret[c] # execute_js(OkWire(v))

\* C6: for every failure of the call execute_js returns the failure marker
\* and raises nothing.
C6_FailureNeverRaises ==
    \A c \in Callers :
        (e_pc[c] = "done" /\ IsFailureWire(e_wire[c])) => e_ret[c] = Return(None)

IsHit(o) == o.raised = "" /\ Truthy(o.value)

\* C7: wait_for returns True at the first truthy result of the predicate, after
\* exactly that many calls; returns False after exactly max_attempts calls none
\* of which was truthy; makes no call after it returned; and no exception of
\* the predicate leaves it.
C7_WaitForCounts ==
    /\ w_pc = "returned_true" =>
          /\ Len(w_calls) \in 1 .. w_budget
          /\ IsHit(w_calls[Len(w_calls)])
          /\ \A k \in 1 .. (Len(w_calls) - 1) : ~IsHit(w_calls[k])
    /\ w_pc = "returned_false" =>
          /\ Len(w_calls) = w_budget
          /\ \A k \in DOMAIN w_calls : ~IsHit(w_calls[k])
    /\ w_pc = "loop" =>
          /\ Len(w_calls) <= w_budget
          /\ \A k \in DOMAIN w_calls : ~IsHit(w_calls[k])
    /\ w_pc \in {"loop", "returned_true", "returned_false"}
    /\ w_pc \in {"returned_true", "returned_false"} => ~ENABLED W_Step

\* The predicate raised, then returned a falsy value, then a truthy one.
C7_Witness ==
    /\ w_pc = "returned_true"
    /\ Len(w_calls) = 3
    /\ w_calls[1].raised # ""
    /\ w_calls[2].raised = ""

\* C8: with either payload unavailable, inject_to_viewer sends neither payload
\* and returns False.
C8_NoPartialInjection ==
    (~Truthy(JSZIP_JS) \/ ~Truthy(INJECT_JS)) =>
        /\ \A k \in DOMAIN i_evals : i_evals[k] \notin {"jszip", "inject"}
        /\ i_ret.raised = "" => i_ret = Return(False)

\* C9: after every monitor tick whose fetch returned a list (empty or not),
\* the keys of active_debuggers are the ids of that list.
C9_ActiveIsSnapshot ==
    (m_pc = "sleep" /\ m_snapshot.ok) =>
        KeysOf(active_debuggers) = IdsOf(m_snapshot.list)

\* C10: when a monitor tick that polled sessions ends, every tracked session
\* has been polled in it, whatever failed while polling another one.
C10_PollFailureIsolated ==
    (m_pc = "sleep" /\ debuggers_truthy(m_snapshot)) =>
        m_polled = KeysOf(active_debuggers)

\* C11: a call of inject_to_viewer that evaluated both payloads and returned
\* has a truthy result, which the loop reports as "Successfully injected"; a
\* falsy result is returned only by a call that did not send the main payload.
C11_SuccessIsTruthy ==
    i_ret.raised = "" =>
        /\ (\E j, k \in DOMAIN i_evals : i_evals[j] = "jszip" /\ i_evals[k] = "inject")
              => report(i_ret.value) = "Successfully injected"
        /\ ~Truthy(i_ret.value) => \A k \in DOMAIN i_evals : i_evals[k] # "inject"

\* C12: once the host process is no longer observed alive, the
\* reconciliation loop eventually leaves its loop (by finishing or by an
\* exception), also among sessions that never answer an evaluation request.
C12_LoopLeaves ==
    (~running) ~> (r_pc \in {"stopped", "raised"})

RECURSIVE Flat(_)
Flat(batches) == IF batches = <<>> THEN <<>> ELSE Head(batches) \o Flat(Tail(batches))

\* C13: for every buffer, the entries the monitor logged, drain after drain,
\* are in the order the page appended them and none appears twice; and while
\* nothing was appended since a drain ran, the buffer is empty, so the next
\* drain returns the empty list.
C13_AtMostOnceFifo ==
    \A b \in Buffers :
        /\ LET logged == Flat(k_log[b])
           IN  \A j, k \in DOMAIN logged :
                  j < k => EntryNo(logged[j]) < EntryNo(logged[k])
        /\ k_clean[b] => drain_script(page, b).value = EmptyList

\* Two drains each logged one entry of the messages buffer, and the buffer has
\* been drained again since.
C13_Witness ==
    /\ Len(k_log["messages"]) = 2
    /\ k_clean["messages"]
    /\ k_polls = 2

\* C14: every entry appended to a buffer of the current page context is in a
\* buffer of the page until the monitor has logged it, whatever happened to
\* the responses of the drains.
C14_NoEntryLost ==
    k_owed \subseteq Buffered(page)

BufferedCount(pg) == Len(pg.messages) + Len(pg.errors) + Len(pg.warnings)

\* C15: in a page context where the collector script has run, the console
\* functions are wrapped exactly once and the next run returns
\* "already-setup" (the first one returns "setup-complete"); a run after the
\* first changes no buffer and no wrapper; and one console call or error
\* event appends exactly one entry.
C15_InstallIdempotent ==
    /\ [](/\ page.installs >= 1 => (page.setup /\ page.wraps = 1 /\ page.listeners = 1)
          /\ setup_script(page).value =
                IF page.installs = 0 THEN SetupComplete ELSE AlreadySetup)
    /\ [][/\ (page.installs >= 1 /\ page'.installs = page.installs + 1) =>
                /\ \A b \in Buffers : page'[b] = page[b]
                /\ page'.wraps = page.wraps
          /\ (page.installs >= 1 /\ k_calls' = k_calls + 1) =>
                BufferedCount(page') = BufferedCount(page) + 1]_vars

\* The collector script ran twice in one page context and the buffer holds the
\* one entry of the one console call made.
C15_Witness ==
    /\ page.installs = 2
    /\ k_calls = 1
    /\ page.messages = <<StrOf("", 1)>>

\* C16: once stop_monitoring has returned, the monitor task is done and
\* no step of it (directory fetch, evaluation, sleep) can be taken any more,
\* wherever the task was when stop_monitoring was called.
C16_StopWaitsForTask ==
    s_pc = "returned" => (task_done(m_pc) /\ ~m_cancel /\ ~ENABLED T_Resume)

\* stop_monitoring returned after cancelling the task in the middle of a poll,
\* at the evaluation that drains the messages buffer.
C16_Witness ==
    /\ s_pc = "returned"
    /\ s_at = "messages"
    /\ m_pc = "cancelled"

\* C17: no failure of the discovery request leaves get_debuggers as an
\* exception, so monitor_debuggers is never ended by one.
C17_DirectoryNeverRaises ==
    r_raised # "get_debuggers"

\* C18: in every call of inject_to_viewer the 60-frame wait script, the
\* library payload and the main payload are sent in this order; the library
\* payload is evaluated only after the frame wait has completed in the page;
\* and the main payload is evaluated only after the library payload has been.
C18_FixedOrder ==
    /\ \A k \in DOMAIN i_evals :
          /\ i_evals[k] = "jszip" => \E j \in 1 .. (k - 1) : i_evals[j] = "frames60"
          /\ i_evals[k] = "inject" => \E j \in 1 .. (k - 1) : i_evals[j] = "jszip"
    /\ \A k \in DOMAIN i_ran :
          /\ i_ran[k] = "jszip" => \E j \in 1 .. (k - 1) : i_ran[j] = "frames60"
          /\ i_ran[k] = "inject" => \E j \in 1 .. (k - 1) : i_ran[j] = "jszip"

\* C19: for a session whose probe succeeded and whose viewer check returned
\* false, inject_to_viewer returns False having sent the viewer check only
\* (no iframe check, no frame wait, no payload), and when the tick ends the
\* session id is in known_ids.
C19_NotViewerSkipped ==
    /\ (r_pc = "for" /\ debugger.id \in not_viewer) =>
          /\ i_ret = Return(False)
          /\ i_evals = <<"viewer">>
          /\ i_ran = <<>>
    /\ r_pc = "sleep" => not_viewer \subseteq known_ids

\* A tick ended in which the viewer check of both sessions returned false.
C19_Witness ==
    /\ r_pc = "sleep"
    /\ not_viewer = {1, 2}
    /\ i_ret = Return(False)

\* C20: a step of the monitor taken while its latest directory fetch is a
\* failed one (None returned, or an exception caught by the loop) leaves
\* active_debuggers as it was: no id added, removed or re-addressed.
C20_FailedFetchKeepsActive ==
    [][~m_snapshot'.ok => active_debuggers' = active_debuggers]_vars

\* A tick whose fetch failed has ended and the monitor still tracks a session.
C20_Witness ==
    /\ m_pc = "sleep"
    /\ ~m_snapshot.ok
    /\ m_ticks >= 1
    /\ active_debuggers # <<>>


\* The reconciliation loop waits for a response that never arrives.
ReconWaits == r_pc \in ReconEvalPcs /\ debugger.id \in silent

\* The monitor waits for a response that never arrives.
MonWaits == m_pc \in EvalPcs /\ m_debugger.debugger_id \in silent

\* C21: while one loop is suspended in an evaluation whose response has not
\* arrived, the other loop completes its next tick, as long as the host
\* process is alive (and the explored number of ticks is not used up).
C21_OtherLoopKeepsTicking ==
    /\ \A n \in 0 .. (BothTicks - 1) :
          (ReconWaits /\ running /\ m_ticks = n /\ r_ticks + n < BothTicks)
             ~> (m_ticks > n \/ ~running)
    /\ \A n \in 0 .. (BothTicks - 1) :
          (MonWaits /\ running /\ r_ticks = n /\ m_ticks + n < BothTicks)
             ~> (r_ticks > n \/ ~running)

\* What does hold of the two loops: a loop that waits for a response stops
\* the other one at nothing; the other loop completes its next tick unless it
\* waits itself for a response that never arrives, or has ended.
C21_NoMutualBlocking ==
    /\ \A n \in 0 .. (BothTicks - 1) :
          (ReconWaits /\ running /\ m_ticks = n /\ r_ticks + n < BothTicks)
             ~> (m_ticks > n \/ ~running \/ MonWaits \/ m_pc = "raised")
    /\ \A n \in 0 .. (BothTicks - 1) :
          (MonWaits /\ running /\ r_ticks = n /\ m_ticks + n < BothTicks)
             ~> (r_ticks > n \/ ~running \/ ReconWaits \/ r_pc = "raised")

\* The callers that are inside "async with websockets.connect(ws_url) as ws"
InProgress == {c \in Callers : e_pc[c] \in {"connected", "sent", "received"}}

\* C22: every open connection was opened by a call of execute_js that is in
\* progress, each such call has exactly one, so a call that has returned,
\* raised or been cancelled has none left and there are never more open
\* connections than calls in progress (one per loop); no connection carries
\* more than one request, and it has carried one once the call has sent it.
C22_ConnectionPerCall ==
    /\ \A x \in connections :
          /\ x.call \in {CallOf(c) : c \in InProgress}
          /\ x.requests = IF e_pc[x.call[1]] = "connected" THEN 0 ELSE 1
    /\ \A c \in InProgress : \E x \in connections : x.call = CallOf(c)
    /\ Cardinality(connections) = Cardinality(InProgress)
    /\ Cardinality(connections) <= Cardinality(Callers)

\* The second call of monitor_debuggers has failed at recv and left no
\* connection behind, while the monitor task waits for a response on the
\* connection of its second call.
C22_Witness ==
    /\ e_pc["recon"] = "done"
    /\ e_calls["recon"] = 2
    /\ e_wire["recon"].fail = "recv"
    /\ e_pc["monitor"] = "sent"
    /\ connections = {[call |-> <<"monitor", 2>>, requests |-> 1]}

\* C23: in every interleaving of the two coroutines, a step of the monitor
\* task (a resumption or the delivery of its cancellation) leaves known_ids
\* as it was, and a step of monitor_debuggers (of its loop or of its finally
\* clause) leaves active_debuggers as it was.
C23_DisjointState ==
    [][ /\ (B_Mon \/ T_Cancelled) => known_ids' = known_ids
        /\ (B_Recon \/ B_Finally \/ S_Return) => active_debuggers' = active_debuggers
      ]_vars

\* Both loops have completed a tick and hold different views: the
\* reconciliation loop knows session 1, the monitor was given an empty list
\* and tracks nothing.
C23_Witness ==
    /\ known_ids = {1}
    /\ r_ticks = 1
    /\ m_ticks = 1
    /\ m_snapshot.ok
    /\ active_debuggers = <<>>

\* C24: stop_monitoring is entered only from the finally clause, once the
\* while loop has ended or an exception has left the try block; and when it
\* has returned, so that monitor_debuggers returns or re-raises, the monitor
\* task is done, no cancellation is pending and no step of the task remains.
C24_NoMonitorOutlives ==
    /\ s_pc # "idle" => r_pc \in {"stopped", "raised"}
    /\ (r_pc \in {"stopped", "raised"} /\ s_pc = "returned") =>
          /\ task_done(m_pc)
          /\ ~m_cancel
          /\ ~ENABLED B_Mon

\* An exception left the reconciliation loop while the monitor task waited
\* for the collector install on a session that never answers; the task was
\* cancelled there and monitor_debuggers is about to re-raise.
C24_Witness ==
    /\ r_pc = "raised"
    /\ s_pc = "returned"
    /\ silent = {1}
    /\ s_at = "setup"
    /\ m_pc = "cancelled"

\* C25: the sessions a tick takes for new are listed ones whose id is not in
\* known_ids when the tick starts, and none of them was listed by the latest
\* successful snapshot before it; known_ids changes only when the for loop
\* has ended, to the ids listed in that tick; and every evaluation of the
\* tick (probe, frame wait, inject_to_viewer) is on a session taken from
\* these, one whose id is not in known_ids.
C25_ProbeOnlyUnknown ==
    [][ /\ (r_pc = "while" /\ r_pc' = "for") =>
              /\ IdsOf(new_debuggers') \cap known_ids = {}
              /\ IdsOf(new_debuggers') \cap r_snapshot = {}
              /\ IdsOf(new_debuggers') \subseteq current_ids'
        /\ known_ids' # known_ids =>
              /\ r_pc = "for" /\ r_pc' = "sleep"
              /\ known_ids' = current_ids
        /\ r_pc' \in ReconEvalPcs \cup {"wait_iframe"} =>
              /\ debugger'.id \in current_ids' \ known_ids'
              /\ r_pc = "for" => debugger' = Head(new_debuggers)
              /\ r_pc # "for" => debugger' = debugger
      ]_vars

\* Second tick: session 1 was listed by the first tick, its probe failed (no
\* injection was tried), it is listed again and is passed over; the probe
\* under way is on session 2, which is new.
C25_Witness ==
    /\ r_ticks = 1
    /\ r_pc = "probe"
    /\ debugger.id = 2
    /\ known_ids = {1}
    /\ current_ids = {1, 2}
    /\ inject_calls[1] = 0

\* C26: while the monitor is in its polling loop, the fetch of this tick has
\* returned a non-empty list, the sessions tracked are exactly the ones it
\* lists, each at the address of its descriptor, the sessions still to poll
\* and the ones polled are among them, and the evaluation under way is on a
\* session this list names, at the address the dict holds for it.  A session
\* the list does not name is thus neither tracked nor polled in the tick, and
\* a tick whose fetch failed or returned nothing polls no session.
C26_PollsListedOnly ==
    m_pc \in EvalPcs \cup {"poll"} =>
        /\ debuggers_truthy(m_snapshot)
        /\ KeysOf(active_debuggers) = IdsOf(m_snapshot.list)
        /\ \A k \in DOMAIN active_debuggers :
              \E j \in DOMAIN m_snapshot.list :
                  active_debuggers[k] = Item(m_snapshot.list[j])
        /\ \A k \in DOMAIN m_queue :
              \E j \in DOMAIN active_debuggers : m_queue[k] = active_debuggers[j]
        /\ m_polled \subseteq IdsOf(m_snapshot.list)
        /\ m_pc \in EvalPcs =>
              /\ m_debugger.debugger_id \in IdsOf(m_snapshot.list)
              /\ \E j \in DOMAIN active_debuggers : m_debugger = active_debuggers[j]

\* Second tick: session 1 was tracked already and session 2 has been added in
\* this tick, whose list names 2 before 1; both have been polled in the order
\* of the dict and the last evaluation on session 2 is under way.
C26_Witness ==
    /\ m_ticks = 1
    /\ m_pc = "warnings"
    /\ m_snapshot.list = <<Descriptor(2), Descriptor(1)>>
    /\ active_debuggers = <<Item(Descriptor(1)), Item(Descriptor(2))>>
    /\ m_debugger = Item(Descriptor(2))
    /\ m_polled = {1, 2}

=========================================================================
